---- MODULE Spec2Model ----
(***************************************************************************)
(* A model of packages/vite-plugin-build/src/buildFiles.ts.                *)
(*                                                                         *)
(* Strings of the program are sequences of one-character strings, so that  *)
(* String.replace, String.includes and the path functions are computed     *)
(* character by character.  Paths are POSIX paths.                         *)
(***************************************************************************)
EXTENDS Integers, Sequences, FiniteSets, TLC

VARIABLES
    \* ---- buildFiles / transformFile as processes (batch orchestration)
    incrementCount,   \* the module-level counter (line 9)
    pc,               \* pc[b]: where call b of buildFiles stands: "idle", "pool",
                      \* "done", or "threw" when fg.sync has thrown
    tree,             \* tree[b]: the files below the input folder when call b globs
    srcFilePaths,     \* srcFilePaths[b]: the glob result of call b
    formats,          \* options.formats as the caller gave it
    throwsFor,        \* the files for which the caller's buildOptions function throws
    poolNext,         \* poolNext[b]: index of the next item the task pool starts
    worker,           \* worker[b][f]: the transformFile call of file f
    unit,             \* unit[b][f][k]: the bundler invocation for format k of f:
                      \* "none", "inflight", "ok", "failed", or "hung" (never settles)
    invoked,          \* invoked[b][f][k]: how often build() was called for it
    hasPartialError,  \* hasPartialError[b]: the pool's aggregate failure flag
    startLog,         \* startLog[b]: the arguments startBuild was called with
    fileLog,          \* fileLog[b]: the <<count, file>> pairs of the per-file callback
    endLog,           \* endLog[b]: the arguments endBuild was called with
    \* ---- one transformFile call seen from the inside (configuration synthesis)
    fileRelativePath, \* its first argument
    options,          \* its second argument
    transformFilePath,\* the local of lines 39-45
    callPc,           \* "entry" before the call, "await" while it waits on Promise.all,
                      \* then "returned" or "rejected"
    bundlerCalls,     \* the configurations build() was called with, in order
    externalCall,     \* a call of the external classifier and its result
    buildResults,     \* buildResults[k]: what lastBuild of the k-th format came to
    \* ---- the task pool with interchangeable files (concurrency ceiling)
    ceil

batchVars == <<incrementCount, pc, tree, srcFilePaths, formats, throwsFor, poolNext, worker,
               unit, invoked, hasPartialError, startLog, fileLog, endLog>>
callVars  == <<fileRelativePath, options, transformFilePath, callPc, bundlerCalls,
               externalCall, buildResults>>
vars      == <<batchVars, callVars, ceil>>

(***************************************************************************)
(* JavaScript strings                                                      *)
(***************************************************************************)
Max(S) == CHOOSE x \in S : \A y \in S : y <= x
Min(S) == CHOOSE x \in S : \A y \in S : x <= y

\* s.startsWith(sub, i) with i counted from 1
MatchAt(s, sub, i) ==
    /\ i + Len(sub) - 1 <= Len(s)
    /\ \A j \in 1..Len(sub) : s[i + j - 1] = sub[j]

\* s.indexOf(sub) + 1: the first position sub occurs at, 0 when it does not
IndexOf(s, sub) ==
    LET hits == {i \in 1..(Len(s) + 1) : MatchAt(s, sub, i)}
    IN IF hits = {} THEN 0 ELSE Min(hits)

\* s.includes(sub)
Includes(s, sub) == IndexOf(s, sub) # 0

\* s.replace(sub, rep) with a string pattern: the FIRST occurrence only
ReplaceFirst(s, sub, rep) ==
    LET i == IndexOf(s, sub)
    IN IF i = 0 THEN s
       ELSE SubSeq(s, 1, i - 1) \o rep \o SubSeq(s, i + Len(sub), Len(s))

\* the same replacement with a greedy /.*\//: everything up to the LAST '/'
StripThroughLastSeparator(s) ==
    LET hits == {i \in 1..Len(s) : s[i] = "/"}
    IN IF hits = {} THEN s ELSE SubSeq(s, Max(hits) + 1, Len(s))

\* s.replace(/[^/]*\//, ''): the leftmost match starts at 0 and runs to the
\* first '/', so everything up to and including the first '/' goes
StripFirstSegment(s) ==
    LET i == IndexOf(s, <<"/">>)
    IN IF i = 0 THEN s ELSE SubSeq(s, i + 1, Len(s))

(***************************************************************************)
(* node:path (posix)                                                       *)
(***************************************************************************)
RECURSIVE Split(_)
\* s.split('/')
Split(s) ==
    LET i == IndexOf(s, <<"/">>)
    IN IF i = 0 THEN <<s>>
       ELSE <<SubSeq(s, 1, i - 1)>> \o Split(SubSeq(s, i + 1, Len(s)))

RECURSIVE Join(_)
\* segs.join('/')
Join(segs) ==
    IF Len(segs) = 0 THEN <<>>
    ELSE IF Len(segs) = 1 THEN segs[1]
    ELSE segs[1] \o <<"/">> \o Join(Tail(segs))

DOT    == <<".">>
DOTDOT == <<".", ".">>

RECURSIVE NormalizeSegs(_, _, _)
\* normalizeString: drop '' and '.', let '..' remove the segment before it
NormalizeSegs(segs, acc, allowAboveRoot) ==
    IF Len(segs) = 0 THEN acc
    ELSE LET h == Head(segs)
             t == Tail(segs)
         IN IF h = <<>> \/ h = DOT THEN NormalizeSegs(t, acc, allowAboveRoot)
            ELSE IF h = DOTDOT THEN
                 IF Len(acc) > 0 /\ acc[Len(acc)] # DOTDOT
                 THEN NormalizeSegs(t, SubSeq(acc, 1, Len(acc) - 1), allowAboveRoot)
                 ELSE IF allowAboveRoot
                      THEN NormalizeSegs(t, Append(acc, h), allowAboveRoot)
                      ELSE NormalizeSegs(t, acc, allowAboveRoot)
            ELSE NormalizeSegs(t, Append(acc, h), allowAboveRoot)

normalizeString(p, allowAboveRoot) == Join(NormalizeSegs(Split(p), <<>>, allowAboveRoot))

isAbsolute(p) == Len(p) > 0 /\ p[1] = "/"

\* path.normalize(p)
normalize(p) ==
    IF Len(p) = 0 THEN DOT
    ELSE LET abs      == isAbsolute(p)
             trailing == p[Len(p)] = "/"
             n        == normalizeString(p, ~abs)
         IN IF Len(n) = 0
            THEN (IF abs THEN <<"/">> ELSE IF trailing THEN <<".", "/">> ELSE DOT)
            ELSE (IF abs THEN <<"/">> ELSE <<>>) \o n \o (IF trailing THEN <<"/">> ELSE <<>>)

\* process.cwd()
cwd == <<"/", "w">>

\* path.resolve(a, b): from the right, up to the first absolute argument,
\* then the working directory; empty arguments are skipped
resolve(a, b) ==
    LET rb  == b
        rab == IF isAbsolute(rb) \/ Len(a) = 0 THEN rb
               ELSE IF Len(rb) = 0 THEN a ELSE a \o <<"/">> \o rb
        all == IF isAbsolute(rab) THEN rab
               ELSE IF Len(rab) = 0 THEN cwd ELSE cwd \o <<"/">> \o rab
    IN <<"/">> \o normalizeString(all, FALSE)

\* the index after the last character that is not a trailing '/'
EndOfPath(p) ==
    LET body == {i \in 1..Len(p) : p[i] # "/"}
    IN IF body = {} THEN 0 ELSE Max(body)

\* path.basename(p)
basename(p) ==
    LET e      == EndOfPath(p)
        before == {i \in 1..e : p[i] = "/"}
        s      == IF before = {} THEN 1 ELSE Max(before) + 1
    IN IF e = 0 THEN <<>> ELSE SubSeq(p, s, e)

\* path.dirname(p)
dirname(p) ==
    IF Len(p) = 0 THEN DOT
    ELSE LET e    == EndOfPath(p)
             cand == {i \in 2..Len(p) : p[i] = "/" /\ i < e}
         IN IF cand = {} THEN (IF p[1] = "/" THEN <<"/">> ELSE DOT)
            ELSE IF p[1] = "/" /\ Max(cand) = 2 THEN <<"/", "/">>
            ELSE SubSeq(p, 1, Max(cand) - 1)

\* path.extname(p): from the last '.' of the basename, '' when there is no '.',
\* when the only '.' leads the basename, and for '..'
extname(p) ==
    LET base == basename(p)
        dots == {i \in 1..Len(base) : base[i] = "."}
    IN IF dots = {} THEN <<>>
       ELSE LET d == Max(dots)
            IN IF d = 1 THEN <<>>
               ELSE IF base = DOTDOT THEN <<>>
               ELSE SubSeq(base, d, Len(base))

(***************************************************************************)
(* JavaScript values: objects, arrays, primitive values, functions and     *)
(* undefined, tagged so that typeof / Array.isArray can be asked           *)
(***************************************************************************)
Obj(f)    == [t |-> "object", v |-> f]
Arr(s)    == [t |-> "array", v |-> s]
Val(x)    == [t |-> "value", v |-> x]
Fn(name)  == [t |-> "function", v |-> name]
Undefined == [t |-> "undefined"]

IsObj(x) == x.t = "object"
IsArr(x) == x.t = "array"
IsFn(x)  == x.t = "function"
IsNil(x) == x.t = "undefined"

\* { ...a, ...b } on the property maps
Spread(f, g) == [k \in (DOMAIN f) \cup (DOMAIN g) |-> IF k \in DOMAIN g THEN g[k] ELSE f[k]]

\* the property map of a value that is spread: undefined spreads nothing
Props(x) == IF IsObj(x) THEN x.v ELSE <<>>

\* vite's arraify
arraify(x) == IF IsArr(x) THEN x.v ELSE <<x>>

RECURSIVE mergeConfigRecursively(_, _)
\* vite's mergeConfig on build options: a null override is skipped, a missing
\* default is filled in, arrays are concatenated, objects are merged key by
\* key and anything else is replaced by the override
mergeConfigRecursively(defaults, overrides) ==
    [k \in (DOMAIN defaults) \cup {o \in DOMAIN overrides : ~IsNil(overrides[o])} |->
        IF k \notin DOMAIN overrides \/ IsNil(overrides[k]) THEN defaults[k]
        ELSE IF k \notin DOMAIN defaults \/ IsNil(defaults[k]) THEN overrides[k]
        ELSE IF IsArr(defaults[k]) \/ IsArr(overrides[k])
             THEN Arr(arraify(defaults[k]) \o arraify(overrides[k]))
        ELSE IF IsObj(defaults[k]) /\ IsObj(overrides[k])
             THEN Obj(mergeConfigRecursively(defaults[k].v, overrides[k].v))
        ELSE overrides[k]]

mergeConfig(defaults, overrides) == Obj(mergeConfigRecursively(Props(defaults), Props(overrides)))

(***************************************************************************)
(* The strings of the program                                              *)
(***************************************************************************)
CJS    == <<"c", "j", "s">>
ES     == <<"e", "s">>
DOT_JS == <<".", "j", "s">>
DOT_TS == <<".", "t", "s">>
DOT_VUE    == <<".", "v", "u", "e">>
DOT_SVELTE == <<".", "s", "v", "e", "l", "t", "e">>
Q_VUE  == <<"?", "v", "u", "e">>
LANG_  == <<"l", "a", "n", "g", ".">>
DOT_SASS == <<".", "s", "a", "s", "s">>
DOT_SCSS == <<".", "s", "c", "s", "s">>
DOT_LESS == <<".", "l", "e", "s", "s">>
DOT_CSS  == <<".", "c", "s", "s">>
DOT_SVG  == <<".", "s", "v", "g">>
DOT_JSON == <<".", "j", "s", "o", "n">>

(***************************************************************************)
(* transformFile, lines 24-179                                             *)
(***************************************************************************)
isVueTempFile(filePath) == Includes(filePath, Q_VUE) /\ Includes(filePath, LANG_)

\* lines 38-45: the output path of an input path
TransformFilePath(path) ==
    LET ext == extname(path)
    IN IF ext \in {DOT_VUE, DOT_SVELTE}
       THEN StripFirstSegment(path) \o DOT_JS
       ELSE ReplaceFirst(StripFirstSegment(path), ext, DOT_JS)

isAsset(id) ==
    \/ Includes(id, DOT_SASS)
    \/ Includes(id, DOT_SCSS)
    \/ Includes(id, DOT_LESS)
    \/ Includes(id, DOT_CSS)
    \/ Includes(id, DOT_SVG)

isJson(id) == Includes(id, DOT_JSON)

\* the comparison of line 77 without path.normalize
IsOwnerFileRaw(id, path) == id = resolve(cwd, path)

\* line 77: the module id is the entry file itself
IsOwnerFile(id, path) == normalize(id) = resolve(cwd, path)

\* For the owner file `path`, the classifier of lines 52-82 applied to `id`
\* when the caller gave no classifier: TRUE bundles the module, FALSE leaves
\* it external
DefaultExternal(id, path) ==
    IF isJson(id) \/ isAsset(id) \/ isVueTempFile(id) \/ IsOwnerFile(id, path)
    THEN FALSE
    ELSE TRUE

\* The functions a caller passes in the options, by name
CallerFunctions == {"outputFor", "buildFor", "externalFor", "hook"}

\* rollupOptionsOutput as a function of the output file path
outputFor(outputFilePath) ==
    Obj([dir |-> Val(<<"/", "x">>), banner |-> Val(outputFilePath)])

\* buildOptions as a function of the input file path
buildFor(inputFilePath) ==
    Obj([outDir |-> Val(<<"o">>),
         rollupOptions |-> Obj([output |->
             Obj([dir |-> Val(<<"/", "x">>),
                  entryFileNames |-> Val(basename(inputFilePath))])])])

\* rollupOptionsExternal as a function: the recipe of the comment at line 233
externalFor(id, inputFilePath) ==
    IF Includes(id, resolve(cwd, inputFilePath)) THEN FALSE ELSE TRUE

\* lines 49-83: the classifier the configuration carries, applied to a module id
lastRollupOptionsExternal(id, path, rollupOptionsExternal) ==
    IF IsFn(rollupOptionsExternal)
    THEN externalFor(id, path)
    ELSE DefaultExternal(id, path)

\* line 36
LastBuildOptions(path, buildOptions) ==
    IF IsFn(buildOptions) THEN buildFor(path) ELSE buildOptions

\* lines 47-48
LastRollupOptionsOutput(tfp, rollupOptionsOutput) ==
    IF IsFn(rollupOptionsOutput) THEN outputFor(tfp) ELSE rollupOptionsOutput

\* lines 91-96: the function-valued entries of pluginHooks
LastPluginHooks(pluginHooks) ==
    LET hooks == Props(pluginHooks)
    IN [k \in {h \in DOMAIN hooks : IsFn(hooks[h])} |-> hooks[k]]

\* the output entry with `dir` set before the caller's options are spread
BaseOutputDirFirst(tfp, lastRollupOptionsOutput, outputDir, format) ==
    Obj(Spread([entryFileNames       |-> Val(basename(tfp)),
                format               |-> Val(format),
                indent               |-> Val(FALSE),
                assetFileNames       |-> Val(<<"[", "n", "]", ".", "[", "e", "]">>),
                inlineDynamicImports |-> Val(TRUE),
                dir                  |-> Val(dirname(resolve(outputDir, tfp)))],
               Props(lastRollupOptionsOutput)))

\* lines 105-115: the output entry of the base configuration
BaseOutput(tfp, lastRollupOptionsOutput, outputDir, format) ==
    Obj(Spread(Spread([entryFileNames       |-> Val(basename(tfp)),
                       format               |-> Val(format),
                       indent               |-> Val(FALSE),
                       assetFileNames       |-> Val(<<"[", "n", "]", ".", "[", "e", "]">>),
                       inlineDynamicImports |-> Val(TRUE)],
                      Props(lastRollupOptionsOutput)),
               [dir |-> Val(dirname(resolve(outputDir, tfp)))]))

\* lines 89-144
createBuildConfig(path, tfp, opts, outputDir, format) ==
    LET lastOutput  == LastRollupOptionsOutput(tfp, opts.rollupOptionsOutput)
        external    == IF IsFn(opts.rollupOptionsExternal) \/ IsNil(opts.rollupOptionsExternal)
                       THEN Fn("lastRollupOptionsExternal")
                       ELSE opts.rollupOptionsExternal
        buildConfig == mergeConfig(
            Obj([assetsDir     |-> Val(<<".", "/">>),
                 cssCodeSplit  |-> Val(TRUE),
                 emptyOutDir   |-> Val(FALSE),
                 rollupOptions |-> Obj([external |-> external,
                                        output   |-> Arr(<<BaseOutput(tfp, lastOutput,
                                                                      outputDir, format)>>)]),
                 lib           |-> Obj([formats |-> Arr(<<Val(CJS)>>),
                                        entry   |-> Val(resolve(cwd, path)),
                                        name    |-> Val(<<"n", "o", "o", "p">>)]),
                 minify        |-> Val(FALSE),
                 watch         |-> opts.watch]),
            LastBuildOptions(path, opts.buildOptions))
        callerPlugins == IF IsObj(opts.viteConfig) /\ "plugins" \in DOMAIN opts.viteConfig.v
                         THEN opts.viteConfig.v["plugins"].v
                         ELSE <<>>
    IN Obj(Spread(Props(opts.viteConfig),
                  [plugins    |-> Arr(<<Obj(Spread([name    |-> Val(<<"v", "b", "f", "t">>),
                                                    enforce |-> Val(<<"p", "r", "e">>)],
                                                   LastPluginHooks(opts.pluginHooks)))>>
                                      \o callerPlugins),
                   mode       |-> Val(<<"p", "r", "o", "d">>),
                   configFile |-> Val(FALSE),
                   logLevel   |-> Val(<<"e", "r", "r", "o", "r">>),
                   build      |-> buildConfig]))

\* line 32 and lines 165-168: the format list with every entry a
\* {format, outDir} pair
\* the default of the comments at lines 190, 205 and 211
DefaultFormatsDocumented ==
    Arr(<<Obj([format |-> Val(CJS), outDir |-> Val(<<"l", "i", "b">>)]),
          Obj([format |-> Val(ES), outDir |-> Val(ES)])>>)

\* line 32
DefaultFormats == Arr(<<Val(CJS), Val(ES)>>)

NormalizeFormat(format) ==
    IF format.t = "value"
    THEN [format |-> format.v, outDir |-> format.v]
    ELSE [format |-> format.v.format.v, outDir |-> format.v.outDir.v]

FormatList(fmts) ==
    LET given == IF IsNil(fmts) THEN DefaultFormats ELSE fmts
    IN [k \in 1..Len(given.v) |-> NormalizeFormat(given.v[k])]

\* a build() promise that has not settled, and one that has rejected
Pending  == [t |-> "pending"]
Rejected == [t |-> "rejected"]

\* what build() of line 147 resolves with: a watcher when build.watch is
\* set, otherwise one output per entry of rollupOptions.output, each with
\* its chunk and, when the module has styles, an asset
BundlerOutput(config, withAsset) ==
    LET build   == config.v.build.v
        entries == build.rollupOptions.v.output
        chunk(entry) == Obj([type     |-> Val(<<"c">>),
                             fileName |-> IF "entryFileNames" \in DOMAIN entry.v
                                          THEN entry.v.entryFileNames
                                          ELSE Val(<<"i">> \o DOT_JS)])
        asset   == Obj([type |-> Val(<<"a">>), fileName |-> Val(<<"s">> \o DOT_CSS)])
    IN IF ~IsNil(build.watch)
       THEN Obj([watcher |-> Val(TRUE)])
       ELSE Arr([i \in 1..Len(entries.v) |->
                    Obj([output |-> Arr(IF withAsset
                                        THEN <<chunk(entries.v[i]), asset>>
                                        ELSE <<chunk(entries.v[i])>>)])])

\* lines 148-158 with only the first record of an output annotated
AnnotateFirstOnly(output, outputDir, tfp) ==
    IF IsArr(output)
    THEN Arr([i \in 1..Len(output.v) |->
             IF IsArr(output.v[i].v.output)
             THEN Obj(Spread(output.v[i].v,
                      [output |-> Arr([j \in 1..Len(output.v[i].v.output.v) |->
                           IF j = 1
                           THEN Obj(Spread(output.v[i].v.output.v[j].v,
                                    [outputFilePath |-> Val(outputDir \o <<"/">> \o tfp)]))
                           ELSE output.v[i].v.output.v[j]])]))
             ELSE output.v[i]])
    ELSE output

\* lines 148-158: every record of every output gets outputFilePath
Annotate(output, outputDir, tfp) ==
    IF IsArr(output)
    THEN Arr([i \in 1..Len(output.v) |->
             IF IsArr(output.v[i].v.output)
             THEN Obj(Spread(output.v[i].v,
                      [output |-> Arr([j \in 1..Len(output.v[i].v.output.v) |->
                           Obj(Spread(output.v[i].v.output.v[j].v,
                               [outputFilePath |-> Val(outputDir \o <<"/">> \o tfp)]))])]))
             ELSE output.v[i]])
    ELSE output

(***************************************************************************)
(* One transformFile call: the inputs it is checked on                     *)
(***************************************************************************)
SRC  == <<"s", "r", "c">>
UTIL == <<"u", "t", "i", "l">>
A_TS == <<"a", ".", "t", "s">>
MATH == <<"m", "a", "t", "h">>
COMP == <<"C", "o", "m", "p">>
ESM  == <<"e", "s", "m">>
LIB  == <<"l", "i", "b">>
DOT_TSX == <<".", "t", "s", "x">>

\* directories below the input root: none, one named like the root, a plain
\* one and one named like a source file
InputDirs  == {<<>>, <<SRC>>, <<UTIL>>, <<A_TS>>}
InputStems == {MATH, COMP}
InputExts  == {DOT_TS, DOT_TSX, DOT_JS, DOT_VUE, DOT_SVELTE}

\* src/test.js and test.js, the two shapes the comment at line 21 names
InputPaths ==
    {Join(<<SRC>> \o d \o <<st \o e>>) : d \in InputDirs, st \in InputStems, e \in InputExts}
    \cup {st \o e : st \in InputStems, e \in InputExts}

SRC_UTIL_MATH_TS == Join(<<SRC, UTIL, MATH \o DOT_TS>>)

FormatOptions ==
    { Undefined,
      Arr(<<Val(CJS), Obj([format |-> Val(ES), outDir |-> Val(ESM)])>>),
      Arr(<<Val(ES)>>),
      Arr(<<Obj([format |-> Val(CJS), outDir |-> Val(<<"/", "o">>)])>>) }

NoOverrides ==
    [buildOptions |-> Undefined, rollupOptionsOutput |-> Undefined,
     rollupOptionsExternal |-> Undefined, viteConfig |-> Undefined,
     pluginHooks |-> Undefined, watch |-> Undefined]

\* the options of lines 207 and 213, which buildFiles hands on in restOptions
LegacyOutputDirs == [esOutputDir |-> Val(ESM), commonJsOutputDir |-> Val(LIB)]

ElsewhereOutput == Obj([dir |-> Val(<<"/", "x">>)])

\* what a caller may pass besides the formats
OverrideOptions ==
    { NoOverrides,
      [NoOverrides EXCEPT !.rollupOptionsOutput =
          Obj([dir |-> Val(<<"/", "x">>), indent |-> Val(TRUE)])],
      [NoOverrides EXCEPT !.rollupOptionsOutput = Fn("outputFor")],
      [NoOverrides EXCEPT !.buildOptions =
          Obj([minify |-> Val(TRUE), outDir |-> Val(<<"o">>)])],
      [NoOverrides EXCEPT !.buildOptions =
          Obj([rollupOptions |-> Obj([output |-> ElsewhereOutput])])],
      [NoOverrides EXCEPT !.buildOptions =
          Obj([rollupOptions |-> Obj([output |-> Arr(<<ElsewhereOutput>>)])])],
      [NoOverrides EXCEPT !.buildOptions = Fn("buildFor")],
      [NoOverrides EXCEPT !.viteConfig =
          Obj([build   |-> Obj([outDir |-> Val(<<"/", "x">>),
                                rollupOptions |-> Obj([output |-> ElsewhereOutput])]),
               plugins |-> Arr(<<Obj([name |-> Val(<<"p">>)])>>)])],
      NoOverrides @@ LegacyOutputDirs,
      [NoOverrides EXCEPT !.watch = Obj([skipWrite |-> Val(FALSE)])],
      [NoOverrides EXCEPT !.rollupOptionsExternal = Fn("externalFor"),
                          !.pluginHooks =
          Obj([buildStart |-> Fn("hook"), version |-> Val(<<"1">>)])] }

\* the module ids the bundler asks the classifier about while it builds `path`
ModuleIds(path) ==
    LET abs == resolve(cwd, path)
    IN { abs,
         cwd \o <<"/", "/">> \o path,
         cwd \o <<"/", ".", "/">> \o path,
         cwd \o <<"/", "d", "/", ".", ".", "/">> \o path,
         abs \o <<"x">>,
         <<"l", "o">>,
         <<".", "/", "b">>,
         <<"x">> \o DOT_SASS, <<"x">> \o DOT_SCSS, <<"x">> \o DOT_LESS,
         <<"x">> \o DOT_CSS, <<"x">> \o DOT_SVG, <<"x">> \o DOT_JSON,
         <<"x">> \o DOT_CSS \o DOT_JS,
         <<"x">> \o DOT_JSON \o <<"5">>,
         <<"a">> \o DOT_VUE \o Q_VUE \o <<"&">> \o LANG_ \o <<"t", "s">>,
         <<"a">> \o DOT_VUE \o Q_VUE }

(***************************************************************************)
(* One transformFile call: lines 24-173 up to the await, and the bundler   *)
(* asking the classifier                                                   *)
(***************************************************************************)
BatchIdle ==
    /\ incrementCount = 0
    /\ pc = <<>>
    /\ tree = <<>>
    /\ srcFilePaths = <<>>
    /\ formats = <<>>
    /\ throwsFor = {}
    /\ poolNext = <<>>
    /\ worker = <<>>
    /\ unit = <<>>
    /\ invoked = <<>>
    /\ hasPartialError = <<>>
    /\ startLog = <<>>
    /\ fileLog = <<>>
    /\ endLog = <<>>

CeilIdle == ceil = <<>>

InitCall ==
    /\ fileRelativePath \in InputPaths
    /\ options \in {[formats |-> f] @@ o : f \in FormatOptions, o \in OverrideOptions}
    /\ transformFilePath = <<>>
    /\ callPc = "entry"
    /\ bundlerCalls = <<>>
    /\ externalCall = <<>>
    /\ buildResults = <<>>
    /\ BatchIdle
    /\ CeilIdle

\* lines 36-173: the path, the overrides, and one build() per format, all
\* before the first await
transformFile ==
    /\ callPc = "entry"
    /\ LET tfp == TransformFilePath(fileRelativePath)
           fl  == FormatList(options.formats)
       IN /\ transformFilePath' = tfp
          /\ bundlerCalls' = [k \in 1..Len(fl) |->
                 createBuildConfig(fileRelativePath, tfp, options,
                                   fl[k].outDir, fl[k].format)]
          /\ buildResults' = [k \in 1..Len(fl) |-> Pending]
    /\ callPc' = "await"
    /\ UNCHANGED <<fileRelativePath, options, externalCall, batchVars, ceil>>

\* the bundler resolves an import and asks rollupOptions.external about it
External(id) ==
    /\ callPc = "await"
    /\ bundlerCalls # <<>>
    /\ externalCall = <<>>
    /\ externalCall' = [id |-> id,
                        result |-> lastRollupOptionsExternal(id, fileRelativePath,
                                       options.rollupOptionsExternal)]
    /\ UNCHANGED <<fileRelativePath, options, transformFilePath, callPc, bundlerCalls,
                   buildResults, batchVars, ceil>>

NextCall ==
    \/ transformFile
    \/ \E id \in ModuleIds(fileRelativePath) : External(id)

SpecCall == InitCall /\ [][NextCall]_vars

(***************************************************************************)
(* One transformFile call to its end: lastBuild and lines 163-178          *)
(***************************************************************************)
\* lines 147-160: build() of the k-th format resolves and lastBuild
\* annotates what it returned; when it was the last build and none has
\* failed, Promise.all resolves and lines 175-178 run
BuildResolves(k, withAsset) ==
    /\ callPc \in {"await", "rejected"}
    /\ k \in DOMAIN buildResults
    /\ buildResults[k] = Pending
    /\ LET fl == FormatList(options.formats)
       IN buildResults' = [buildResults EXCEPT ![k] =
              Annotate(BundlerOutput(bundlerCalls[k], withAsset),
                       fl[k].outDir, transformFilePath)]
    /\ IF callPc = "await" /\ \A j \in DOMAIN buildResults \ {k} :
                                  buildResults[j] \notin {Pending, Rejected}
       THEN /\ incrementCount' = incrementCount + 1
            /\ fileLog' = Append(fileLog, <<incrementCount + 1, fileRelativePath>>)
            /\ callPc' = "returned"
       ELSE UNCHANGED <<incrementCount, fileLog, callPc>>
    /\ UNCHANGED <<fileRelativePath, options, transformFilePath, bundlerCalls, externalCall,
                   pc, tree, srcFilePaths, formats, throwsFor, poolNext, worker, unit,
                   invoked, hasPartialError, startLog, endLog, ceil>>

\* line 147: build() of the k-th format rejects; lastBuild rejects with it
\* and Promise.all rejects with the first such failure
BuildRejects(k) ==
    /\ callPc \in {"await", "rejected"}
    /\ k \in DOMAIN buildResults
    /\ buildResults[k] = Pending
    /\ buildResults' = [buildResults EXCEPT ![k] = Rejected]
    /\ callPc' = "rejected"
    /\ UNCHANGED <<fileRelativePath, options, transformFilePath, bundlerCalls, externalCall,
                   batchVars, ceil>>

NextBuild ==
    \/ transformFile
    \/ \E k \in DOMAIN buildResults, withAsset \in BOOLEAN : BuildResolves(k, withAsset)
    \/ \E k \in DOMAIN buildResults : BuildRejects(k)

SpecBuild == InitCall /\ [][NextBuild]_vars

(***************************************************************************)
(* Claims about one transformFile call (SpecCall)                          *)
(***************************************************************************)
Called == callPc = "await"

\* the output entries of the configuration of the k-th bundler call
OutputEntries(k) == bundlerCalls[k].v.build.v.rollupOptions.v.output.v

\* the file an output entry makes the bundler write
WrittenFile(entry) == entry.v.dir.v \o <<"/">> \o entry.v.entryFileNames.v

WrittenFiles(k) == {WrittenFile(OutputEntries(k)[i]) : i \in 1..Len(OutputEntries(k))}

C5Formats == Arr(<<Val(CJS), Obj([format |-> Val(ES), outDir |-> Val(ESM)])>>)

C5Case ==
    /\ Called
    /\ fileRelativePath = SRC_UTIL_MATH_TS
    /\ options = [formats |-> C5Formats] @@ NoOverrides

\* C5: for the input src/util/math.ts and the formats ["cjs", {format: "es",
\* outDir: "esm"}] exactly two build units run, and they write
\* lib/util/math.js and esm/util/math.js (below the working directory).
C5_EndToEndOutputs ==
    C5Case =>
        /\ Len(bundlerCalls) = 2
        /\ WrittenFiles(1) = {cwd \o <<"/">> \o Join(<<LIB, UTIL, MATH \o DOT_JS>>)}
        /\ WrittenFiles(2) = {cwd \o <<"/">> \o Join(<<ESM, UTIL, MATH \o DOT_JS>>)}

HasSeparator(path) == Includes(path, <<"/">>)
RootSegment(path)  == Split(path)[1]
SegmentSet(path)   == {Split(path)[i] : i \in 1..Len(Split(path))}

\* C6 as stated: the output path never has the root segment of the input
\* among its path segments.
C6_NeverContainsRoot ==
    Called => RootSegment(fileRelativePath) \notin SegmentSet(transformFilePath)

\* C6 amended: exactly the first segment and its separator are removed, so
\* the output has one path segment fewer than an input with a separator and
\* as many as an input without one.
C6_StripsOneSegment ==
    Called =>
        Len(Split(transformFilePath)) =
            IF HasSeparator(fileRelativePath)
            THEN Len(Split(fileRelativePath)) - 1
            ELSE Len(Split(fileRelativePath))

\* C6 witness: the root name is repeated deeper in the input and is still a
\* segment of the output.
C6_Witness ==
    /\ Called
    /\ HasSeparator(fileRelativePath)
    /\ Len(Split(fileRelativePath)) = 3
    /\ RootSegment(fileRelativePath) \in SegmentSet(transformFilePath)

\* the path with only its final extension replaced by .js
WithFinalExtensionJs(path) ==
    SubSeq(path, 1, Len(path) - Len(extname(path))) \o DOT_JS

\* C7: a .vue or .svelte input keeps its whole file name and gets .js
\* appended; any other input is the root-stripped path with only its final
\* extension replaced by .js, every directory segment unchanged.
C7_ExtensionRule ==
    Called =>
        IF extname(fileRelativePath) \in {DOT_VUE, DOT_SVELTE}
        THEN /\ basename(transformFilePath) = basename(fileRelativePath) \o DOT_JS
             /\ transformFilePath = StripFirstSegment(fileRelativePath) \o DOT_JS
        ELSE transformFilePath = WithFinalExtensionJs(StripFirstSegment(fileRelativePath))

Classified == externalCall # <<>>
NoCallerClassifier == IsNil(options.rollupOptionsExternal)

\* the forms a module id of the owner file takes: the resolved path, and the
\* same path with a doubled separator, a '.' segment and a '..' detour
OwnerForms(path) ==
    { resolve(cwd, path),
      cwd \o <<"/", "/">> \o path,
      cwd \o <<"/", ".", "/">> \o path,
      cwd \o <<"/", "d", "/", ".", ".", "/">> \o path }

\* C8: with no caller classifier, a module id that denotes the owner file,
\* normalised or not, is classified external (FALSE).
C8_SelfReferenceExternal ==
    (Classified /\ NoCallerClassifier /\ externalCall.id \in OwnerForms(fileRelativePath))
        => externalCall.result = FALSE

\* C8 witness: the classifier was asked about an un-normalised form of the
\* owner file's path.
C8_Witness ==
    /\ Classified
    /\ NoCallerClassifier
    /\ externalCall.id \in OwnerForms(fileRelativePath)
    /\ externalCall.id # resolve(cwd, fileRelativePath)
    /\ externalCall.result = FALSE

EndsWith(s, suffix) ==
    Len(suffix) <= Len(s) /\ SubSeq(s, Len(s) - Len(suffix) + 1, Len(s)) = suffix

AssetSuffixes == {DOT_CSS, DOT_SCSS, DOT_LESS, DOT_SASS, DOT_SVG, DOT_JSON}

HasAssetSuffix(id) == \E suffix \in AssetSuffixes : EndsWith(id, suffix)

\* C9: with no caller classifier, an id ending in .css, .scss, .less, .sass,
\* .svg or .json is external (FALSE), and an id with no such suffix that is
\* neither a '?vue' + 'lang.' temp file nor the owner file is bundled (TRUE).
C9_AssetClassification ==
    (Classified /\ NoCallerClassifier) =>
        /\ HasAssetSuffix(externalCall.id) => externalCall.result = FALSE
        /\ ( /\ ~HasAssetSuffix(externalCall.id)
             /\ ~(Includes(externalCall.id, Q_VUE) /\ Includes(externalCall.id, LANG_))
             /\ normalize(externalCall.id) # resolve(cwd, fileRelativePath) )
           => externalCall.result = TRUE

\* the directory the unit of format k is meant to write to
ComputedDir(k) ==
    dirname(resolve(FormatList(options.formats)[k].outDir, transformFilePath))

EntryHasDir(entry, dir) == "dir" \in DOMAIN entry.v /\ entry.v.dir = Val(dir)

\* C10 as stated: whatever the caller overrides, every output entry handed
\* to the bundler has the computed directory.
C10_NoOutputElsewhere ==
    Called =>
        \A k \in 1..Len(bundlerCalls) :
            \A i \in 1..Len(OutputEntries(k)) :
                EntryHasDir(OutputEntries(k)[i], ComputedDir(k))

\* the caller's build options carry output entries of their own
BuildOptionsAddOutput ==
    LET last == LastBuildOptions(fileRelativePath, options.buildOptions)
    IN /\ IsObj(last)
       /\ "rollupOptions" \in DOMAIN last.v
       /\ "output" \in DOMAIN last.v.rollupOptions.v

\* C10 amended: the first output entry always has the computed directory,
\* whatever rollupOptionsOutput, buildOptions and viteConfig say, and it is
\* the only entry unless buildOptions.rollupOptions.output adds entries.
C10_ComputedEntryKeepsDir ==
    Called =>
        \A k \in 1..Len(bundlerCalls) :
            /\ Len(OutputEntries(k)) >= 1
            /\ EntryHasDir(OutputEntries(k)[1], ComputedDir(k))
            /\ ~BuildOptionsAddOutput => Len(OutputEntries(k)) = 1

\* C10 witness: the caller's rollupOptionsOutput names another directory and
\* the entry still has the computed one.
C10_Witness ==
    /\ Called
    /\ Len(bundlerCalls) >= 1
    /\ IsObj(LastRollupOptionsOutput(transformFilePath, options.rollupOptionsOutput))
    /\ "dir" \in DOMAIN LastRollupOptionsOutput(transformFilePath, options.rollupOptionsOutput).v
    /\ EntryHasDir(OutputEntries(1)[1], ComputedDir(1))
    /\ ComputedDir(1) # <<"/", "x">>

\* the units the claim expects for a format list
ExpectedUnits(fmts) ==
    IF IsNil(fmts)
    THEN <<[format |-> CJS, outDir |-> CJS], [format |-> ES, outDir |-> ES]>>
    ELSE [k \in 1..Len(fmts.v) |->
             IF fmts.v[k].t = "value"
             THEN [format |-> fmts.v[k].v, outDir |-> fmts.v[k].v]
             ELSE [format |-> fmts.v[k].v.format.v, outDir |-> fmts.v[k].v.outDir.v]]

Resolved(k) == buildResults[k] \notin {Pending, Rejected}

\* the chunk and asset records of what lastBuild of the k-th format returned
Records(k) ==
    IF IsArr(buildResults[k])
    THEN {buildResults[k].v[i].v.output.v[j] :
             i \in 1..Len(buildResults[k].v),
             j \in 1..Max({Len(buildResults[k].v[x].v.output.v) :
                               x \in 1..Len(buildResults[k].v)})}
    ELSE {}

UnitOutDir(k) == FormatList(options.formats)[k].outDir

\* C18 as stated: after a successful build every record of every returned
\* output carries as outputFilePath the resolved destination path
\* resolve(outDir, transformFilePath).
C18_AnnotatedWithResolvedPath ==
    \A k \in DOMAIN buildResults :
        Resolved(k) =>
            \A r \in Records(k) :
                /\ "outputFilePath" \in DOMAIN r.v
                /\ r.v.outputFilePath = Val(resolve(UnitOutDir(k), transformFilePath))

\* C18 amended: after a successful build every record of every returned
\* output carries as outputFilePath the string outDir/transformFilePath as
\* the caller wrote outDir, which resolved against the working directory is
\* the destination path; a watcher is returned as it is; a failed build
\* rejects the call, is not called again and leaves no annotation.
C18_AnnotatedWithJoinedPath ==
    /\ callPc # "entry" => Len(bundlerCalls) = Len(FormatList(options.formats))
    /\ \A k \in DOMAIN buildResults :
           /\ Resolved(k) =>
                  /\ \A r \in Records(k) :
                         /\ "outputFilePath" \in DOMAIN r.v
                         /\ r.v.outputFilePath =
                                Val(UnitOutDir(k) \o <<"/">> \o transformFilePath)
                         /\ resolve(cwd, r.v.outputFilePath.v) =
                                resolve(UnitOutDir(k), transformFilePath)
                  /\ ~IsArr(buildResults[k]) =>
                         buildResults[k] = BundlerOutput(bundlerCalls[k], FALSE)
           /\ buildResults[k] = Rejected => callPc = "rejected"
    /\ callPc = "returned" => \A k \in DOMAIN buildResults : Resolved(k)

\* C18 witness: src/util/math.ts with the default formats: the cjs build
\* returned a chunk and an asset, both annotated with cjs/util/math.js, and
\* the es build failed, which rejected the call.
C18_Witness ==
    /\ fileRelativePath = SRC_UTIL_MATH_TS
    /\ IsNil(options.formats)
    /\ callPc = "rejected"
    /\ Len(buildResults) = 2
    /\ Resolved(1)
    /\ Cardinality(Records(1)) = 2
    /\ \A r \in Records(1) :
           r.v.outputFilePath = Val(Join(<<CJS, UTIL, MATH \o DOT_JS>>))
    /\ buildResults[2] = Rejected

(***************************************************************************)
(* buildFiles, lines 275-308: batches of files through the task pool       *)
(***************************************************************************)
MaxFiles == 2

\* two calls of buildFiles: a batch and the batch after it
Calls == {1, 2}

\* a pool that admits one item more
LimitOffByOne == 20 + 1

\* limit: 20 at line 299
Limit == 20

\* src/f<n>.ts and src/f<n>.spec.ts
SourceFile(n) == [n |-> n, spec |-> FALSE]
SpecFile(n)   == [n |-> n, spec |-> TRUE]

\* what the input folder may hold when a call globs: the first n source
\* files, and a spec file next to the first
SourceFiles == {SourceFile(i) : i \in 1..MaxFiles}

Trees == {{SourceFile(i) : i \in 1..n} \cup {SpecFile(1)} : n \in 0..MaxFiles}

\* the default ignore list of line 287
Ignored(f) == f.spec

RECURSIVE InOrder(_)
\* the files of a set in discovery order
InOrder(S) ==
    IF S = {} THEN <<>>
    ELSE LET f == CHOOSE x \in S : \A y \in S : x.n <= y.n
         IN <<f>> \o InOrder(S \ {f})

\* fg.sync of lines 286-288
Glob(t) == InOrder({f \in t : ~Ignored(f)})

BatchFormatOptions == {Undefined, Arr(<<Val(ES)>>)}

\* the formats of the units of a file, by position in the format list
Units == 1..Len(FormatList(formats))

FilesOf(b) == {srcFilePaths[b][i] : i \in 1..Len(srcFilePaths[b])}

\* the transformFile calls of call b the pool has started and not seen settle
Running(b) == {f \in FilesOf(b) : worker[b][f] = "await"}

\* a slot below the limit is free for the next item
SlotFree(running) == running < Limit

InitBatch ==
    /\ incrementCount = 0
    /\ pc = [b \in Calls |-> "idle"]
    /\ tree = [b \in Calls |-> {}]
    /\ srcFilePaths = [b \in Calls |-> <<>>]
    /\ formats \in BatchFormatOptions
    /\ throwsFor \in {{}, {SourceFile(1)}, {SourceFile(2)}}
    /\ poolNext = [b \in Calls |-> 1]
    /\ worker = [b \in Calls |-> <<>>]
    /\ unit = [b \in Calls |-> <<>>]
    /\ invoked = [b \in Calls |-> <<>>]
    /\ hasPartialError = [b \in Calls |-> FALSE]
    /\ startLog = [b \in Calls |-> <<>>]
    /\ fileLog = [b \in Calls |-> <<>>]
    /\ endLog = [b \in Calls |-> <<>>]

CallIdle ==
    /\ fileRelativePath = <<>>
    /\ options = <<>>
    /\ transformFilePath = <<>>
    /\ callPc = "none"
    /\ bundlerCalls = <<>>
    /\ externalCall = <<>>
    /\ buildResults = <<>>

Init == InitBatch /\ CallIdle /\ CeilIdle

\* lines 275-292: glob, reset the counter, startBuild, hand the list to the pool
buildFiles(b, t) ==
    /\ pc[b] = "idle"
    /\ tree' = [tree EXCEPT ![b] = t]
    /\ srcFilePaths' = [srcFilePaths EXCEPT ![b] = Glob(t)]
    /\ incrementCount' = 0
    /\ startLog' = [startLog EXCEPT ![b] = Append(@, Len(Glob(t)))]
    /\ worker' = [worker EXCEPT ![b] = [f \in t |-> "none"]]
    /\ unit' = [unit EXCEPT ![b] = [f \in t |-> [k \in Units |-> "none"]]]
    /\ invoked' = [invoked EXCEPT ![b] = [f \in t |-> [k \in Units |-> 0]]]
    /\ poolNext' = [poolNext EXCEPT ![b] = 1]
    /\ pc' = [pc EXCEPT ![b] = "pool"]
    /\ UNCHANGED <<formats, throwsFor, hasPartialError, fileLog, endLog>>

\* a pool that starts no further item once an item has thrown
PoolStartStopsAtThrow(b) ==
    /\ pc[b] = "pool"
    /\ poolNext[b] <= Len(srcFilePaths[b])
    /\ SlotFree(Cardinality(Running(b)))
    /\ LET f == srcFilePaths[b][poolNext[b]]
       IN IF f \in throwsFor
          THEN /\ worker' = [worker EXCEPT ![b] =
                       [g \in DOMAIN @ |-> IF @[g] = "none" /\ ~Ignored(g)
                                            THEN "rejected" ELSE @[g]]]
               /\ hasPartialError' = [hasPartialError EXCEPT ![b] = TRUE]
               /\ poolNext' = [poolNext EXCEPT ![b] = Len(srcFilePaths[b]) + 1]
               /\ UNCHANGED <<unit, invoked>>
          ELSE /\ worker' = [worker EXCEPT ![b][f] = "await"]
               /\ unit' = [unit EXCEPT ![b][f] = [k \in Units |-> "inflight"]]
               /\ invoked' = [invoked EXCEPT ![b][f] = [k \in Units |-> @[k] + 1]]
               /\ poolNext' = [poolNext EXCEPT ![b] = @ + 1]
               /\ UNCHANGED hasPartialError
    /\ UNCHANGED <<incrementCount, pc, tree, srcFilePaths, formats, throwsFor,
                   startLog, fileLog, endLog>>

\* the pool starts its next item: transformFile runs up to its await, lines
\* 36-173.  The caller's buildOptions function may throw at line 36; otherwise
\* build() is called once for every format
PoolStart(b) ==
    /\ pc[b] = "pool"
    /\ poolNext[b] <= Len(srcFilePaths[b])
    /\ SlotFree(Cardinality(Running(b)))
    /\ LET f == srcFilePaths[b][poolNext[b]]
       IN IF f \in throwsFor
          THEN /\ worker' = [worker EXCEPT ![b][f] = "rejected"]
               /\ hasPartialError' = [hasPartialError EXCEPT ![b] = TRUE]
               /\ UNCHANGED <<unit, invoked>>
          ELSE /\ worker' = [worker EXCEPT ![b][f] = "await"]
               /\ unit' = [unit EXCEPT ![b][f] = [k \in Units |-> "inflight"]]
               /\ invoked' = [invoked EXCEPT ![b][f] = [k \in Units |-> @[k] + 1]]
               /\ UNCHANGED hasPartialError
    /\ poolNext' = [poolNext EXCEPT ![b] = @ + 1]
    /\ UNCHANGED <<incrementCount, pc, tree, srcFilePaths, formats, throwsFor,
                   startLog, fileLog, endLog>>

\* line 175 adds two
BundlerResolveCountsTwice(b, f, k) ==
    /\ pc[b] # "idle"
    /\ f \in FilesOf(b)
    /\ unit[b][f][k] = "inflight"
    /\ unit' = [unit EXCEPT ![b][f][k] = "ok"]
    /\ IF worker[b][f] = "await" /\ \A j \in Units \ {k} : unit[b][f][j] = "ok"
       THEN /\ incrementCount' = incrementCount + 2
            /\ fileLog' = [fileLog EXCEPT ![b] = Append(@, <<incrementCount + 2, f>>)]
            /\ worker' = [worker EXCEPT ![b][f] = "resolved"]
       ELSE UNCHANGED <<incrementCount, fileLog, worker>>
    /\ UNCHANGED <<pc, tree, srcFilePaths, formats, throwsFor, poolNext, invoked,
                   hasPartialError, startLog, endLog>>

\* the success callback fires with the first build of a file that resolves
BundlerResolveEager(b, f, k) ==
    /\ pc[b] # "idle"
    /\ f \in FilesOf(b)
    /\ unit[b][f][k] = "inflight"
    /\ unit' = [unit EXCEPT ![b][f][k] = "ok"]
    /\ IF worker[b][f] = "await"
       THEN /\ incrementCount' = incrementCount + 1
            /\ fileLog' = [fileLog EXCEPT ![b] = Append(@, <<incrementCount + 1, f>>)]
            /\ worker' = [worker EXCEPT ![b][f] = "resolved"]
       ELSE UNCHANGED <<incrementCount, fileLog, worker>>
    /\ UNCHANGED <<pc, tree, srcFilePaths, formats, throwsFor, poolNext, invoked,
                   hasPartialError, startLog, endLog>>

\* a build() promise resolves.  When it is the last of its file and none has
\* failed, Promise.all resolves and lines 175-178 run
BundlerResolve(b, f, k) ==
    /\ pc[b] # "idle"
    /\ f \in FilesOf(b)
    /\ unit[b][f][k] = "inflight"
    /\ unit' = [unit EXCEPT ![b][f][k] = "ok"]
    /\ IF worker[b][f] = "await" /\ \A j \in Units \ {k} : unit[b][f][j] = "ok"
       THEN /\ incrementCount' = incrementCount + 1
            /\ fileLog' = [fileLog EXCEPT ![b] = Append(@, <<incrementCount + 1, f>>)]
            /\ worker' = [worker EXCEPT ![b][f] = "resolved"]
       ELSE UNCHANGED <<incrementCount, fileLog, worker>>
    /\ UNCHANGED <<pc, tree, srcFilePaths, formats, throwsFor, poolNext, invoked,
                   hasPartialError, startLog, endLog>>

\* a build() that failed is called again, once
BundlerRejectRetries(b, f, k) ==
    /\ pc[b] # "idle"
    /\ f \in FilesOf(b)
    /\ unit[b][f][k] = "inflight"
    /\ invoked[b][f][k] < 2
    /\ invoked' = [invoked EXCEPT ![b][f][k] = @ + 1]
    /\ UNCHANGED <<incrementCount, pc, tree, srcFilePaths, formats, throwsFor, poolNext,
                   worker, unit, hasPartialError, startLog, fileLog, endLog>>

\* a build() promise rejects.  Promise.all rejects with the first failure, so
\* transformFile rejects and the pool records the failure; the file's other
\* builds stay in flight
BundlerReject(b, f, k) ==
    /\ pc[b] # "idle"
    /\ f \in FilesOf(b)
    /\ unit[b][f][k] = "inflight"
    /\ unit' = [unit EXCEPT ![b][f][k] = "failed"]
    /\ IF worker[b][f] = "await"
       THEN /\ worker' = [worker EXCEPT ![b][f] = "rejected"]
            /\ hasPartialError' = [hasPartialError EXCEPT ![b] = TRUE]
       ELSE UNCHANGED <<worker, hasPartialError>>
    /\ UNCHANGED <<incrementCount, pc, tree, srcFilePaths, formats, throwsFor, poolNext,
                   invoked, startLog, fileLog, endLog>>

\* the pool's promise rejects on a partial failure: buildFiles throws at line
\* 292 and never reaches endBuild
PoolDrainedThrows(b) ==
    /\ pc[b] = "pool"
    /\ poolNext[b] > Len(srcFilePaths[b])
    /\ Running(b) = {}
    /\ IF hasPartialError[b]
       THEN UNCHANGED <<endLog, incrementCount>>
       ELSE /\ endLog' = [endLog EXCEPT ![b] = Append(@, incrementCount)]
            /\ incrementCount' = 0
    /\ pc' = [pc EXCEPT ![b] = "done"]
    /\ UNCHANGED <<tree, srcFilePaths, formats, throwsFor, poolNext, worker, unit, invoked,
                   hasPartialError, startLog, fileLog>>

\* buildFiles without the reset of line 307
PoolDrainedNoReset(b) ==
    /\ pc[b] = "pool"
    /\ poolNext[b] > Len(srcFilePaths[b])
    /\ Running(b) = {}
    /\ endLog' = [endLog EXCEPT ![b] = Append(@, incrementCount)]
    /\ pc' = [pc EXCEPT ![b] = "done"]
    /\ UNCHANGED <<incrementCount, tree, srcFilePaths, formats, throwsFor, poolNext, worker,
                   unit, invoked, hasPartialError, startLog, fileLog>>

\* buildFiles gives up waiting for the transformFile calls still running
PoolDrainedWithoutWaiting(b) ==
    /\ pc[b] = "pool"
    /\ poolNext[b] > Len(srcFilePaths[b])
    /\ endLog' = [endLog EXCEPT ![b] = Append(@, incrementCount)]
    /\ incrementCount' = 0
    /\ pc' = [pc EXCEPT ![b] = "done"]
    /\ UNCHANGED <<tree, srcFilePaths, formats, throwsFor, poolNext, worker, unit, invoked,
                   hasPartialError, startLog, fileLog>>

\* buildFiles with lines 306 and 307 exchanged
PoolDrainedResetFirst(b) ==
    /\ pc[b] = "pool"
    /\ poolNext[b] > Len(srcFilePaths[b])
    /\ Running(b) = {}
    /\ endLog' = [endLog EXCEPT ![b] = Append(@, 0)]
    /\ incrementCount' = 0
    /\ pc' = [pc EXCEPT ![b] = "done"]
    /\ UNCHANGED <<tree, srcFilePaths, formats, throwsFor, poolNext, worker, unit, invoked,
                   hasPartialError, startLog, fileLog>>

\* lines 301-307: every item of the pool has settled; endBuild, reset
PoolDrained(b) ==
    /\ pc[b] = "pool"
    /\ poolNext[b] > Len(srcFilePaths[b])
    /\ Running(b) = {}
    /\ endLog' = [endLog EXCEPT ![b] = Append(@, incrementCount)]
    /\ incrementCount' = 0
    /\ pc' = [pc EXCEPT ![b] = "done"]
    /\ UNCHANGED <<tree, srcFilePaths, formats, throwsFor, poolNext, worker, unit, invoked,
                   hasPartialError, startLog, fileLog>>

\* the caller serialises its batches: call b starts when the calls before it
\* have returned
Serial(b) == \A c \in Calls : c < b => pc[c] = "done"

Next ==
    \/ \E b \in Calls, t \in Trees : Serial(b) /\ buildFiles(b, t) /\ UNCHANGED <<callVars, ceil>>
    \/ \E b \in Calls : PoolStart(b) /\ UNCHANGED <<callVars, ceil>>
    \/ \E b \in Calls, f \in SourceFiles, k \in Units :
           BundlerResolve(b, f, k) /\ UNCHANGED <<callVars, ceil>>
    \/ \E b \in Calls, f \in SourceFiles, k \in Units :
           BundlerReject(b, f, k) /\ UNCHANGED <<callVars, ceil>>
    \/ \E b \in Calls : PoolDrained(b) /\ UNCHANGED <<callVars, ceil>>

Spec == Init /\ [][Next]_vars

(***************************************************************************)
(* buildFiles without a caller that serialises: a call may start while     *)
(* another is in its pool, fg.sync may throw, and a build() promise may    *)
(* never settle.  "hung" marks a build that will never settle.             *)
(***************************************************************************)
\* fg.sync resets the counter before it throws
GlobThrowsAfterReset(b) ==
    /\ pc[b] = "idle"
    /\ pc' = [pc EXCEPT ![b] = "threw"]
    /\ incrementCount' = 0
    /\ UNCHANGED <<tree, srcFilePaths, formats, throwsFor, poolNext, worker, unit,
                   invoked, hasPartialError, startLog, fileLog, endLog>>

\* lines 286-288: fg.sync throws and buildFiles rejects with its error;
\* line 290 and what follows it do not run
GlobThrows(b) ==
    /\ pc[b] = "idle"
    /\ pc' = [pc EXCEPT ![b] = "threw"]
    /\ UNCHANGED <<incrementCount, tree, srcFilePaths, formats, throwsFor, poolNext, worker,
                   unit, invoked, hasPartialError, startLog, fileLog, endLog>>

\* line 147: this build() promise will never settle (there is no timeout
\* and no cancellation)
BundlerHangs(b, f, k) ==
    /\ pc[b] # "idle"
    /\ f \in FilesOf(b)
    /\ unit[b][f][k] = "inflight"
    /\ unit' = [unit EXCEPT ![b][f][k] = "hung"]
    /\ UNCHANGED <<incrementCount, pc, tree, srcFilePaths, formats, throwsFor, poolNext,
                   worker, invoked, hasPartialError, startLog, fileLog, endLog>>

MaxOverlapFiles == 1

\* what the input folder may hold when calls overlap
OverlapTrees == {t \in Trees : Len(Glob(t)) <= MaxOverlapFiles}

NextOverlap ==
    \/ \E b \in Calls, t \in OverlapTrees : buildFiles(b, t) /\ UNCHANGED <<callVars, ceil>>
    \/ \E b \in Calls : GlobThrows(b) /\ UNCHANGED <<callVars, ceil>>
    \/ \E b \in Calls : PoolStart(b) /\ UNCHANGED <<callVars, ceil>>
    \/ \E b \in Calls, f \in SourceFiles, k \in Units :
           BundlerResolve(b, f, k) /\ UNCHANGED <<callVars, ceil>>
    \/ \E b \in Calls, f \in SourceFiles, k \in Units :
           BundlerReject(b, f, k) /\ UNCHANGED <<callVars, ceil>>
    \/ \E b \in Calls, f \in SourceFiles, k \in Units :
           BundlerHangs(b, f, k) /\ UNCHANGED <<callVars, ceil>>
    \/ \E b \in Calls : PoolDrained(b) /\ UNCHANGED <<callVars, ceil>>

SpecOverlap == Init /\ [][NextOverlap]_vars

(***************************************************************************)
(* Claims about batches (Spec)                                             *)
(***************************************************************************)
\* the files of call b whose format builds all ran and succeeded
Succeeded(b) == {f \in FilesOf(b) : \A k \in Units : unit[b][f][k] = "ok"}

\* the files of call b with a failed build
Failed(b) == {f \in FilesOf(b) : \E k \in Units : unit[b][f][k] = "failed"}

\* the files the per-file success callback of call b was called with
CalledBack(b) == {fileLog[b][i][2] : i \in 1..Len(fileLog[b])}

\* C1: in a batch, a failing file stops no other file: when buildFiles has
\* returned every discovered file was started, every file whose format
\* builds all succeeded got the per-file callback exactly once, and endBuild
\* was called once with the number of those files.
C1_PartialFailureIsolation ==
    \A b \in Calls :
        /\ \A f \in Succeeded(b) :
               Cardinality({i \in 1..Len(fileLog[b]) : fileLog[b][i][2] = f}) = 1
        /\ pc[b] = "done" =>
               /\ \A f \in FilesOf(b) : worker[b][f] \in {"resolved", "rejected"}
               /\ endLog[b] = <<Cardinality(Succeeded(b))>>

\* C1 witness: the first file of a batch failed, the file after it was called
\* back and endBuild got 1.
C1_Witness ==
    /\ pc[1] = "done"
    /\ Len(srcFilePaths[1]) = 2
    /\ Failed(1) = {srcFilePaths[1][1]}
    /\ CalledBack(1) = {srcFilePaths[1][2]}
    /\ endLog[1] = <<1>>

\* C3: with batches run one after the other, the counter is 0 when the pool
\* of a batch has started nothing yet, 0 again whenever no call is running,
\* and the endBuild of every batch gets the number of its own succeeded files.
C3_CounterReset ==
    /\ \A b \in Calls : (pc[b] = "pool" /\ poolNext[b] = 1) => incrementCount = 0
    /\ (\A b \in Calls : pc[b] # "pool") => incrementCount = 0
    /\ \A b \in Calls : pc[b] = "pool" => incrementCount = Cardinality(Succeeded(b))
    /\ \A b \in Calls : pc[b] = "done" => endLog[b] = <<Cardinality(Succeeded(b))>>

\* C3 witness: two batches have returned, the first with 2 and the second
\* with 1 successful file.
C3_Witness ==
    /\ pc[1] = "done" /\ pc[2] = "done"
    /\ endLog[1] = <<2>>
    /\ endLog[2] = <<1>>
    /\ incrementCount = 0

\* C4 as stated: when a batch is through, the bundler has been called exactly
\* once for every discovered file and every format, and never for an ignored
\* file; no pair is ever called twice.
C4_ExactlyOncePerPair ==
    \A b \in Calls :
        /\ \A f \in tree[b] : \A k \in Units : invoked[b][f][k] <= 1
        /\ \A f \in tree[b] : Ignored(f) => \A k \in Units : invoked[b][f][k] = 0
        /\ pc[b] = "done" => \A f \in FilesOf(b) : \A k \in Units : invoked[b][f][k] = 1

\* C4 amended: exactly once for every format of every discovered file whose
\* configuration is synthesised without an exception; not at all for a file
\* whose override function throws, nor for an ignored file; never twice.
C4_ExactlyOnceUnlessConfigThrows ==
    \A b \in Calls :
        /\ \A f \in tree[b] : \A k \in Units : invoked[b][f][k] <= 1
        /\ \A f \in tree[b] : Ignored(f) => \A k \in Units : invoked[b][f][k] = 0
        /\ \A f \in FilesOf(b) \cap throwsFor : \A k \in Units : invoked[b][f][k] = 0
        /\ pc[b] = "done" =>
               \A f \in FilesOf(b) \ throwsFor : \A k \in Units : invoked[b][f][k] = 1

\* C4 witness: a batch of two files with two formats is through, one file
\* had a failed build and the tree held an ignored file.
C4_Witness ==
    /\ pc[1] = "done"
    /\ Len(srcFilePaths[1]) = 2
    /\ Cardinality(Units) = 2
    /\ throwsFor = {}
    /\ Failed(1) # {}
    /\ Succeeded(1) # {}
    /\ \E f \in tree[1] : Ignored(f)
    /\ \A f \in FilesOf(1) : \A k \in Units : invoked[1][f][k] = 1

\* C11: in a batch the per-file callback is called once for every file whose
\* format builds have all resolved and for no other file, right after the
\* counter went up by one: the k-th callback of the batch gets the count k
\* and the path of its own file.
C11_CompletionProtocol ==
    \A b \in Calls :
        /\ \A i \in 1..Len(fileLog[b]) :
               /\ fileLog[b][i][1] = i
               /\ fileLog[b][i][2] \in Succeeded(b)
               /\ \A j \in 1..Len(fileLog[b]) :
                      fileLog[b][j][2] = fileLog[b][i][2] => j = i
        /\ Succeeded(b) \subseteq CalledBack(b)
        /\ CalledBack(b) \cap Failed(b) = {}
        /\ pc[b] = "pool" => incrementCount = Len(fileLog[b])

\* C11 witness: with two formats, the second file of a batch completed
\* first and got the count 1, the first file completed after it and got 2.
C11_Witness ==
    /\ Cardinality(Units) = 2
    /\ Len(srcFilePaths[1]) = 2
    /\ fileLog[1] = <<<<1, srcFilePaths[1][2]>>, <<2, srcFilePaths[1][1]>>>>

\* C12: startBuild is called once with the number of discovered files,
\* before any build or callback of the batch and with the counter at zero;
\* endBuild is called once, when every item of the pool has settled and every
\* callback has fired, with the number of callbacks; the counter is reset
\* after that, whether or not a unit failed.
C12_LifecycleOrder ==
    \A b \in Calls :
        /\ pc[b] = "idle" =>
               /\ startLog[b] = <<>> /\ fileLog[b] = <<>> /\ endLog[b] = <<>>
               /\ \A f \in DOMAIN invoked[b] : \A k \in Units : invoked[b][f][k] = 0
        /\ pc[b] # "idle" => startLog[b] = <<Len(srcFilePaths[b])>>
        /\ (pc[b] = "pool" /\ poolNext[b] = 1) => incrementCount = 0
        /\ pc[b] = "pool" => endLog[b] = <<>>
        /\ pc[b] = "done" =>
               /\ poolNext[b] > Len(srcFilePaths[b])
               /\ \A f \in FilesOf(b) : worker[b][f] \in {"resolved", "rejected"}
               /\ CalledBack(b) = {f \in FilesOf(b) : worker[b][f] = "resolved"}
               /\ endLog[b] = <<Len(fileLog[b])>>
               /\ (\A c \in Calls : pc[c] # "pool") => incrementCount = 0

\* C12 witness: a batch of two files, one of them failed, is through:
\* startBuild got 2, endBuild got 1, the counter is back at 0.
C12_Witness ==
    /\ pc[1] = "done"
    /\ hasPartialError[1]
    /\ startLog[1] = <<2>>
    /\ endLog[1] = <<1>>
    /\ incrementCount = 0

\* C15: a file whose override function throws while its configuration is
\* built fails alone: no build is started for it, it is not counted and not
\* called back, the pool records a partial error; buildFiles still starts
\* and builds every other file, calls endBuild with their count and returns.
C15_ConfigErrorIsolated ==
    \A b \in Calls :
        /\ \A f \in FilesOf(b) \cap throwsFor :
               /\ f \notin CalledBack(b)
               /\ \A k \in Units : invoked[b][f][k] = 0
               /\ worker[b][f] \in {"none", "rejected"}
               /\ worker[b][f] = "rejected" => hasPartialError[b]
        /\ pc[b] = "pool" => incrementCount = Cardinality(Succeeded(b))
        /\ pc[b] = "done" =>
               /\ \A f \in FilesOf(b) \ throwsFor : \A k \in Units : invoked[b][f][k] = 1
               /\ CalledBack(b) = Succeeded(b)
               /\ endLog[b] = <<Cardinality(Succeeded(b))>>

\* C15 witness: the override function threw for the first of two files; the
\* second was built and called back, endBuild got 1.
C15_Witness ==
    /\ throwsFor = {SourceFile(1)}
    /\ pc[1] = "done"
    /\ Len(srcFilePaths[1]) = 2
    /\ hasPartialError[1]
    /\ CalledBack(1) = {SourceFile(2)}
    /\ endLog[1] = <<1>>

\* C19: when endBuild is called, and from then on, no build() started by
\* the batch is still in flight, the other format builds of a file with a
\* failed build included.
C19_QuiescentAtEnd ==
    \A b \in Calls :
        endLog[b] # <<>> =>
            \A f \in FilesOf(b) : \A k \in Units : unit[b][f][k] # "inflight"

(***************************************************************************)
(* Claims about overlapping calls (SpecOverlap)                            *)
(***************************************************************************)
\* a callback or the endBuild of call b got a count that is not the number
\* of files of call b built so far
Miscount(b) ==
    \/ \E i \in 1..Len(fileLog[b]) : fileLog[b][i][1] # i
    \/ endLog[b] # <<>> /\ endLog[b][1] # Cardinality(Succeeded(b))

RECURSIVE SumLen(_, _)
SumLen(log, S) ==
    IF S = {} THEN 0
    ELSE LET c == CHOOSE x \in S : TRUE IN Len(log[c]) + SumLen(log, S \ {c})

\* the callbacks of all calls so far
TotalCallbacks == SumLen(fileLog, Calls)

\* C13: two overlapping calls share the one counter.  A call gets a wrong
\* count only when another call has gone through its reset, and every count
\* handed out lies between 0 and the number of callbacks of all calls; the
\* witness is the interleaving in which the counts are wrong.
C13_MiscountNeedsSecondCall ==
    \A b \in Calls :
        /\ Miscount(b) => \E c \in Calls \ {b} : startLog[c] # <<>>
        /\ \A i \in 1..Len(fileLog[b]) : fileLog[b][i][1] \in 1..TotalCallbacks
        /\ endLog[b] # <<>> => endLog[b][1] \in 0..TotalCallbacks
        /\ incrementCount \in 0..TotalCallbacks

\* C13 witness: two calls of one file each overlapped and both files were
\* built: the callback of the second call got 2, the endBuild of the first
\* got 2 and the endBuild of the second got 0.
C13_Witness ==
    /\ pc[1] = "done" /\ pc[2] = "done"
    /\ Cardinality(Succeeded(1)) = 1 /\ Cardinality(Succeeded(2)) = 1
    /\ fileLog[1][1][1] = 1
    /\ fileLog[2][1][1] = 2
    /\ endLog[1] = <<2>>
    /\ endLog[2] = <<0>>

\* C14: when fg.sync throws, buildFiles has changed nothing: the counter
\* keeps the value it had, and startBuild, the bundler, the per-file callback
\* and endBuild are not called for that call.
C14_DiscoveryErrorChangesNothing ==
    /\ [](\A b \in Calls : pc[b] = "threw" =>
              /\ startLog[b] = <<>> /\ fileLog[b] = <<>> /\ endLog[b] = <<>>
              /\ srcFilePaths[b] = <<>>
              /\ invoked[b] = <<>>)
    /\ [][\A b \in Calls : (pc[b] = "idle" /\ pc'[b] = "threw") =>
              /\ incrementCount' = incrementCount
              /\ startLog' = startLog /\ fileLog' = fileLog /\ endLog' = endLog
              /\ invoked' = invoked]_vars

\* C14 witness: the glob of the second call has thrown while the first call
\* is in its pool with one file counted, and the counter is still 1.
C14_Witness ==
    /\ pc[1] = "pool"
    /\ pc[2] = "threw"
    /\ Len(fileLog[1]) = 1
    /\ incrementCount = 1
    /\ startLog[2] = <<>> /\ endLog[2] = <<>>

MaxExtraFiles == 2

CeilUnits == 1..Len(FormatList(ceil.formats))

\* the transformFile calls the pool has started and not seen settle
CeilRunning == LET w == ceil.waiting IN
    IF Len(w) = 1 THEN w[1] ELSE w[1] + w[2]

\* the build() calls that have not settled
CeilInFlight == LET w == ceil.waiting IN
    (IF Len(w) = 1 THEN w[1] ELSE w[1] + 2 * w[2]) + ceil.orphans

InitCeil ==
    /\ ceil \in {[pc |-> "idle", formats |-> f, files |-> 0, started |-> 0,
                  waiting |-> [i \in 1..Len(FormatList(f)) |-> 0], orphans |-> 0,
                  incrementCount |-> 0, hasPartialError |-> FALSE, endLog |-> <<>>] :
                     f \in BatchFormatOptions}
    /\ BatchIdle
    /\ CallIdle

\* lines 275-292 with n files discovered
CeilBuildFiles(n) ==
    /\ ceil.pc = "idle"
    /\ ceil' = [ceil EXCEPT !.pc = "pool", !.files = n, !.incrementCount = 0]

\* the pool starts its next item, which calls build() for every format
CeilPoolStart ==
    /\ ceil.pc = "pool"
    /\ ceil.started < ceil.files
    /\ SlotFree(CeilRunning)
    /\ ceil' = [ceil EXCEPT !.started = @ + 1,
                            !.waiting[Len(ceil.waiting)] = @ + 1]

\* the pool starts its next item, whose buildOptions function throws
CeilPoolStartThrows ==
    /\ ceil.pc = "pool"
    /\ ceil.started < ceil.files
    /\ SlotFree(CeilRunning)
    /\ ceil' = [ceil EXCEPT !.started = @ + 1, !.hasPartialError = TRUE]

\* a build() of a file with i builds in flight resolves; lines 175-178 run
\* when it was the last
CeilBundlerResolve(i) ==
    /\ ceil.waiting[i] > 0
    /\ IF i = 1
       THEN ceil' = [ceil EXCEPT !.waiting[1] = @ - 1, !.incrementCount = @ + 1]
       ELSE ceil' = [ceil EXCEPT !.waiting[i] = @ - 1, !.waiting[i - 1] = @ + 1]

\* a build() of a file with i builds in flight rejects: transformFile
\* rejects, its other builds stay in flight
CeilBundlerReject(i) ==
    /\ ceil.waiting[i] > 0
    /\ ceil' = [ceil EXCEPT !.waiting[i] = @ - 1, !.orphans = @ + (i - 1),
                            !.hasPartialError = TRUE]

\* a build() of a file that has already failed settles
CeilOrphanSettles ==
    /\ ceil.orphans > 0
    /\ ceil' = [ceil EXCEPT !.orphans = @ - 1]

\* a pool that takes itself for drained one item late
CeilPoolDrainedOffByOne ==
    /\ ceil.pc = "pool"
    /\ ceil.started > ceil.files
    /\ CeilRunning = 0
    /\ ceil' = [ceil EXCEPT !.pc = "done", !.endLog = Append(@, ceil.incrementCount),
                            !.incrementCount = 0]

\* lines 301-307
CeilPoolDrained ==
    /\ ceil.pc = "pool"
    /\ ceil.started = ceil.files
    /\ CeilRunning = 0
    /\ ceil' = [ceil EXCEPT !.pc = "done", !.endLog = Append(@, ceil.incrementCount),
                            !.incrementCount = 0]

NextCeil ==
    \/ \E n \in (Limit + 1)..(Limit + MaxExtraFiles) :
           CeilBuildFiles(n) /\ UNCHANGED <<batchVars, callVars>>
    \/ CeilPoolStart /\ UNCHANGED <<batchVars, callVars>>
    \/ CeilPoolStartThrows /\ UNCHANGED <<batchVars, callVars>>
    \/ \E i \in CeilUnits : CeilBundlerResolve(i) /\ UNCHANGED <<batchVars, callVars>>
    \/ \E i \in CeilUnits : CeilBundlerReject(i) /\ UNCHANGED <<batchVars, callVars>>
    \/ CeilOrphanSettles /\ UNCHANGED <<batchVars, callVars>>
    \/ CeilPoolDrained /\ UNCHANGED <<batchVars, callVars>>

SpecCeil == InitCeil /\ [][NextCeil]_vars

(***************************************************************************)
(* The task pool with few files and with more than Limit files, under the  *)
(* scheduling of the event loop: the pool starts its next item when a slot *)
(* is free, every build() a transformFile call waits for settles, and the  *)
(* continuation of line 301 runs once the pool's promise has resolved.     *)
(***************************************************************************)
MaxFewFiles == 2

CeilFileCounts == (0..MaxFewFiles) \cup ((Limit + 1)..(Limit + MaxExtraFiles))

CeilCall == \E n \in CeilFileCounts : CeilBuildFiles(n) /\ UNCHANGED <<batchVars, callVars>>

CeilStart == (CeilPoolStart \/ CeilPoolStartThrows) /\ UNCHANGED <<batchVars, callVars>>

CeilSettle ==
    \E i \in CeilUnits :
        (CeilBundlerResolve(i) \/ CeilBundlerReject(i)) /\ UNCHANGED <<batchVars, callVars>>

CeilOrphan == CeilOrphanSettles /\ UNCHANGED <<batchVars, callVars>>

CeilEnd == CeilPoolDrained /\ UNCHANGED <<batchVars, callVars>>

NextCeilLive == CeilCall \/ CeilStart \/ CeilSettle \/ CeilOrphan \/ CeilEnd

SpecCeilLive ==
    /\ InitCeil
    /\ [][NextCeilLive]_vars
    /\ WF_vars(CeilStart)
    /\ WF_vars(CeilSettle)
    /\ WF_vars(CeilEnd)

(***************************************************************************)
(* Claims about the pool above its limit (SpecCeil)                        *)
(***************************************************************************)
\* C2 as stated: with more than 20 files, never more than 20 build units
\* (bundler invocations started and not settled) are in flight.
C2_UnitsAtMostLimit == CeilInFlight <= 20

\* C2 amended: never more than 20 files (transformFile calls started and not
\* settled) are in flight, and so never more than 20 build units per
\* requested format that belong to a file still in flight.
C2_FilesAtMostLimit ==
    /\ CeilRunning <= 20
    /\ CeilInFlight - ceil.orphans <= 20 * Len(ceil.waiting)

\* C2 witness: 20 files are in flight and a discovered file waits for a slot.
C2_Witness ==
    /\ ceil.pc = "pool"
    /\ CeilRunning = 20
    /\ ceil.started < ceil.files
    /\ CeilInFlight > 20

\* C20: once buildFiles has handed its files to the pool, with few files or
\* more than 20 and whichever builds fail, every file is started, endBuild
\* is called, exactly once, and the counter is back at 0.
C20_BatchTerminates ==
    /\ (ceil.pc = "pool") ~>
           (/\ ceil.pc = "done"
            /\ ceil.started = ceil.files
            /\ Len(ceil.endLog) = 1
            /\ ceil.incrementCount = 0)
    /\ [](Len(ceil.endLog) <= 1)
    /\ [](ceil.pc = "done" => [](ceil.pc = "done" /\ Len(ceil.endLog) = 1))

\* C20 witness: a batch of more than 20 files, some of which failed, is
\* through: every file was started and endBuild was called once.
C20_Witness ==
    /\ ceil.pc = "done"
    /\ ceil.files > Limit
    /\ ceil.started = ceil.files
    /\ ceil.hasPartialError
    /\ Len(ceil.endLog) = 1
    /\ ceil.endLog[1] > 0
    /\ ceil.incrementCount = 0

====
